---- MODULE Spec2Model ----
(***************************************************************************)
(* Model of the ghost-hunting simulation: one ghost thread, NUM_HUNTERS    *)
(* hunter threads and the main thread that joins them and prints the       *)
(* verdict.  Every step of a thread holds at most one access to memory     *)
(* that another thread reads or writes, so that the interleavings of the   *)
(* unsynchronised accesses (roster arrays, hunterCount, gameOver) are the  *)
(* interleavings of the steps.                                             *)
(***************************************************************************)
EXTENDS Integers, Sequences, FiniteSets, TLC

(* ----------------------------- defs.h ---------------------------------- *)
\* enum EvidenceType
EMF == 0
TEMPERATURE == 1
FINGERPRINTS == 2
SOUND == 3
EV_COUNT == 4
EV_UNKNOWN == 5
\* enum GhostClass
POLTERGEIST == 0
BANSHEE == 1
BULLIES == 2
PHANTOM == 3
GHOST_COUNT == 4
GH_UNKNOWN == 5

MAX_EV == 3

NUM_HUNTERS == 3
\* The counters run at a reduced scale: defs.h sets FEAR_MAX 10 and
\* BOREDOM_MAX 100.  The order FEAR_MAX < BOREDOM_MAX of defs.h is kept.
FEAR_MAX == 2
BOREDOM_MAX == 3
\* populateRooms builds 13 rooms
NumRooms == 13
\* A room's evidence list is unbounded in the code; the ghost draws no
\* deposit for a list that holds MaxLedger entries.
MaxLedger == 3

Hunters == 1..NUM_HUNTERS
Rooms == 1..NumRooms
\* house->rooms->rhead->room, the first room added to the house
Van == 1

(* ----------------------------- utils.c --------------------------------- *)
\* randInt(min, max) is (int)(min + random * (max - min)) with random in
\* [0, 1]: rand_r may return a value that the division by (float)RAND_MAX
\* takes to exactly 1.0, so max itself is a possible result.
randInt(min, max) == IF max > min THEN min..max ELSE {min}

\* randomGhost
randomGhost == randInt(0, GHOST_COUNT)

(* ----------------------------- house.c / room.c ------------------------ *)
\* populateRooms without its last connectRooms call: a faulty variant,
\* against which C27 is tried
populateRoomsButLast ==
    << <<1, 2>>, <<2, 3>>, <<2, 4>>, <<2, 5>>, <<2, 10>>, <<2, 6>>,
       <<6, 7>>, <<7, 8>>, <<7, 9>>, <<10, 11>>, <<10, 12>> >>

\* The connectRooms calls of populateRooms, in order, with each room named
\* by its position in the house's room list (Van 1, Hallway 2, Master
\* Bedroom 3, Boy's Bedroom 4, Bathroom 5, Basement 6, Basement Hallway 7,
\* Right Storage Room 8, Left Storage Room 9, Kitchen 10, Living Room 11,
\* Garage 12, Utility Room 13).
populateRooms ==
    << <<1, 2>>, <<2, 3>>, <<2, 4>>, <<2, 5>>, <<2, 10>>, <<2, 6>>,
       <<6, 7>>, <<7, 8>>, <<7, 9>>, <<10, 11>>, <<10, 12>>, <<12, 13>> >>

\* connectRooms(room1, room2): addRoom appends room2 to room1's list and
\* room1 to room2's list.  connectRoomsUpTo(k) is every room's list after
\* the first k connections (among the rooms the model keeps).
RECURSIVE connectRoomsUpTo(_)
connectRoomsUpTo(k) ==
    IF k = 0 THEN [r \in Rooms |-> << >>]
    ELSE LET prev == connectRoomsUpTo(k - 1)
             a == populateRooms[k][1]
             b == populateRooms[k][2]
         IN IF a \in Rooms /\ b \in Rooms
            THEN [prev EXCEPT ![a] = Append(prev[a], b),
                              ![b] = Append(prev[b], a)]
            ELSE prev

\* room->roomlist of every room once the house is built
roomlist == connectRoomsUpTo(Len(populateRooms))

(* ----------------------------- evidence.c ------------------------------ *)
\* determineEvidenceType with SOUND as the third kind of every class: a
\* faulty variant, against which C35 is tried
determineEvidenceTypeOrSound(ghostType, choice) ==
    IF ghostType \notin POLTERGEIST..PHANTOM THEN EV_UNKNOWN
    ELSE IF choice = 0 THEN (IF ghostType = PHANTOM THEN TEMPERATURE ELSE EMF)
    ELSE IF choice = 1 THEN (IF ghostType \in {POLTERGEIST, BANSHEE} THEN TEMPERATURE ELSE FINGERPRINTS)
    ELSE SOUND

\* determineEvidenceType(ghostType) for the drawn choice
determineEvidenceType(ghostType, choice) ==
    CASE ghostType = POLTERGEIST ->
            (IF choice = 0 THEN EMF ELSE IF choice = 1 THEN TEMPERATURE ELSE FINGERPRINTS)
      [] ghostType = BANSHEE ->
            (IF choice = 0 THEN EMF ELSE IF choice = 1 THEN TEMPERATURE ELSE SOUND)
      [] ghostType = BULLIES ->
            (IF choice = 0 THEN EMF ELSE IF choice = 1 THEN FINGERPRINTS ELSE SOUND)
      [] ghostType = PHANTOM ->
            (IF choice = 0 THEN TEMPERATURE ELSE IF choice = 1 THEN FINGERPRINTS ELSE SOUND)
      [] OTHER -> EV_UNKNOWN

\* isEvidenceCollected with the loop stopping one entry early: a faulty
\* variant, against which C14 is tried
isEvidenceCollectedButLast(arr, evidence) ==
    \E i \in 1..(Len(arr) - 1) : arr[i] = evidence

\* isEvidenceCollected(evidenceArray, evidence)
isEvidenceCollected(arr, evidence) ==
    \E i \in 1..Len(arr) : arr[i] = evidence

\* doesEvidenceExist looking at the last node only: a faulty variant,
\* against which C29 is tried
doesEvidenceExistAtTail(list, hunterEquipment) ==
    IF Len(list) > 0 /\ list[Len(list)] = hunterEquipment
    THEN hunterEquipment ELSE EV_UNKNOWN

\* doesEvidenceExist returning the first node's evidence whatever the
\* equipment: a faulty variant, against which C30 is tried
doesEvidenceExistOfAny(list, hunterEquipment) ==
    IF Len(list) > 0 THEN list[1] ELSE EV_UNKNOWN

\* doesEvidenceExist(room, hunterEquipment) on the room's evidence list
doesEvidenceExist(list, hunterEquipment) ==
    IF \E i \in 1..Len(list) : list[i] = hunterEquipment
    THEN hunterEquipment ELSE EV_UNKNOWN

\* identifyGhostFromEvidence with the second and third tests exchanging
\* their results: a faulty variant, against which C12 is tried
identifyGhostFromEvidenceSwapped(evidence) ==
    LET flag(k) == \E i \in 1..3 : evidence[i] = k /\ evidence[i] >= EMF /\ evidence[i] <= SOUND
    IN IF flag(EMF) /\ flag(TEMPERATURE) /\ flag(FINGERPRINTS) THEN POLTERGEIST
       ELSE IF flag(EMF) /\ flag(TEMPERATURE) /\ flag(SOUND) THEN BULLIES
       ELSE IF flag(EMF) /\ flag(FINGERPRINTS) /\ flag(SOUND) THEN BANSHEE
       ELSE IF flag(TEMPERATURE) /\ flag(FINGERPRINTS) /\ flag(SOUND) THEN PHANTOM
       ELSE GH_UNKNOWN

\* identifyGhostFromEvidence(evidence[3])
identifyGhostFromEvidence(evidence) ==
    LET flag(k) == \E i \in 1..3 : evidence[i] = k /\ evidence[i] >= EMF /\ evidence[i] <= SOUND
    IN IF flag(EMF) /\ flag(TEMPERATURE) /\ flag(FINGERPRINTS) THEN POLTERGEIST
       ELSE IF flag(EMF) /\ flag(TEMPERATURE) /\ flag(SOUND) THEN BANSHEE
       ELSE IF flag(EMF) /\ flag(FINGERPRINTS) /\ flag(SOUND) THEN BULLIES
       ELSE IF flag(TEMPERATURE) /\ flag(FINGERPRINTS) /\ flag(SOUND) THEN PHANTOM
       ELSE GH_UNKNOWN

(* ----------------------------- hunter.c -------------------------------- *)
\* isSufficientEvidence(sharedEvidence): the number of the kinds below
\* MAX_EV that occur in the array
isSufficientEvidence(arr) ==
    Cardinality({k \in 0..(MAX_EV - 1) : \E i \in 1..Len(arr) : arr[i] = k})


\* assignRandomEquipment without its do-while: every hunter is given the
\* first kind drawn.  A faulty variant, against which C34 is tried
assignRandomEquipmentOnce ==
    IF NUM_HUNTERS > EV_COUNT THEN {[h \in Hunters |-> EV_UNKNOWN]}
    ELSE [Hunters -> randInt(0, EV_COUNT - 1)]

\* assignRandomEquipment(hunters, numHunters): the draw is repeated until it
\* hits a kind no earlier hunter holds, so the outcomes are the assignments
\* of distinct kinds; with more hunters than kinds nothing is assigned and
\* every hunter keeps the EV_UNKNOWN of initializeHunters.
assignRandomEquipment ==
    IF NUM_HUNTERS > EV_COUNT THEN {[h \in Hunters |-> EV_UNKNOWN]}
    ELSE {e \in [Hunters -> randInt(0, EV_COUNT - 1)] :
             \A a, b \in Hunters : a # b => e[a] # e[b]}

(* ----------------------------- main.c ---------------------------------- *)
\* The literal 100 that evaluateGameOutcome compares fear, boredom and the
\* ghost's boredom with: the value of BOREDOM_MAX, not of FEAR_MAX.
OutcomeLimit == BOREDOM_MAX

\* house->rooms, head to tail
houseRooms == [i \in 1..NumRooms |-> i]

\* countNonVanRooms(roomList)
countNonVanRooms(roomList) == Len(SelectSeq(roomList, LAMBDA r : r # Van))

\* findRoomByIndex counting the Van as well: a faulty variant, against
\* which C33 is tried
findRoomByIndexOfAll(roomList, index) ==
    IF index < Len(roomList) THEN roomList[index + 1] ELSE 0

\* findRoomByIndex(roomList, index): the room at that index among those
\* whose name is not "Van" (0: NULL)
findRoomByIndex(roomList, index) ==
    LET others == SelectSeq(roomList, LAMBDA r : r # Van)
    IN IF index < Len(others) THEN others[index + 1] ELSE 0

\* getRandomRoomExcludeVan(house): the room at index rand() % totalRooms
getRandomRoomExcludeVan ==
    {findRoomByIndex(houseRooms, randomIndex) :
        randomIndex \in 0..(countNonVanRooms(houseRooms) - 1)}

(* ----------------------------- state ----------------------------------- *)
VARIABLES
    \* GhostType and the ghost thread
    gRoom,          \* ghost->room
    gType,          \* ghost->ghostType
    gBoredom,       \* ghost->boredomTime
    gPc,            \* where the ghost thread is
    gIdx,           \* isHunterPresent's loop index
    gSeen,          \* updateGhost's isHunterInRoom
    gEv,            \* addEv's evidenceToAdd
    ctxNumHunters,  \* GhostBehaviorContext.numHunters
    \* RoomType
    ledger,         \* room->evidencelist, head to tail
    ledgerSem,      \* room->evidencelist->sem
    rosterArr,      \* room->hunterArray->hunter[]: the name held by each slot (0: never written)
    rosterSize,     \* room->hunterArray->size
    rosterSem,      \* room->hunterArray->sem
    \* HunterType (the entries of house->hunterArray) and the hunter threads
    hRoom,          \* hunter->room
    fear,           \* hunter->fear
    boredom,        \* hunter->boredom
    equipment,      \* hunter->equipment
    hPc,            \* where each hunter thread is
    hIdx,           \* removeHunter's index
    hJ,             \* removeHunter's j
    hTmp,           \* the value loaded by a decrement or increment in progress
    hNew,           \* moveToRandomRoomHunter's newRoom
    hFrom,          \* the room whose hunterArray removeHunter was called with
    hEv,            \* collectEvidenceIfNeeded's collectedEv
    \* HouseType and SharedGameState
    pool,           \* house->evidenceArray->evidence[0 .. size-1]
    poolSem,        \* house->evidenceArray->sem
    hunterCount,    \* house->hunterCount
    gameOver,       \* sharedState->gameOver
    \* main
    mPc,            \* where the main thread is
    verdict,        \* the verdict line evaluateGameOutcome printed
    reviewResult,   \* the line reviewEv printed
    \* history
    flagWriters,    \* the threads that have stored 1 to gameOver (0: the ghost)
    \* the random source and the scheduler
    rngGhost,       \* the stream randInt(0, 3) yields to updateGhost: the values each draw may take
    rngHunter,      \* the same for each hunter's performHunterAction
    rngPos,         \* how far into its stream each thread is (0: the ghost)
    startAt,        \* the position of the ghost's stream from which the scheduler lets each thread run
    \* a function applied on its own
    call,           \* the function, its arguments and what it returned
    \* the log
    collectLog      \* how many times each hunter has called l_hunterCollect

ghostVars == <<gRoom, gType, gBoredom, gPc, gIdx, gSeen, gEv, ctxNumHunters>>
roomVars == <<ledger, ledgerSem, rosterArr, rosterSize, rosterSem>>
hunterVars == <<hRoom, fear, boredom, equipment, hPc, hIdx, hJ, hTmp, hNew, hFrom, hEv>>
houseVars == <<pool, poolSem, hunterCount, gameOver>>
mainVars == <<mPc, verdict, reviewResult>>
rngVars == <<rngGhost, rngHunter, startAt>>
unitVars == <<call>>
logVars == <<collectLog>>
vars == <<ghostVars, roomVars, hunterVars, houseVars, mainVars, flagWriters, rngVars, rngPos, unitVars, logVars>>

\* no function is being applied on its own
NoCall == [fn |-> "none", arr |-> << >>, kind |-> EV_UNKNOWN, ret |-> 0, after |-> << >>]

\* The state when setupThreads has started the threads: the house built
\* (setupHouse), the ghost placed (prepareGhost), the hunters in the Van
\* (initializeHunters) with their equipment (assignRandomEquipment).
\* initGhostBehavior leaves the malloc'ed context's numHunters unset: it
\* holds whatever the allocation held, and only its sign is ever read.
\* The last three arguments fix the runs that are explored: what the random
\* source yields and which threads the scheduler lets run.
InitWith(room, type, equip, numHunters, rg, rh, sched) ==
    /\ gRoom = room
    /\ gType = type
    /\ gBoredom = 0
    /\ gPc = "loop"
    /\ gIdx = 0
    /\ gSeen = FALSE
    /\ gEv = EV_UNKNOWN
    /\ ctxNumHunters = numHunters
    /\ ledger = [r \in Rooms |-> << >>]
    /\ ledgerSem = [r \in Rooms |-> 1]
    /\ rosterArr = [r \in Rooms |-> [i \in 0..(NUM_HUNTERS - 1) |-> IF r = Van THEN i + 1 ELSE 0]]
    /\ rosterSize = [r \in Rooms |-> IF r = Van THEN NUM_HUNTERS ELSE 0]
    /\ rosterSem = [r \in Rooms |-> 1]
    /\ hRoom = [h \in Hunters |-> Van]
    /\ fear = [h \in Hunters |-> 0]
    /\ boredom = [h \in Hunters |-> 0]
    /\ equipment = equip
    /\ hPc = [h \in Hunters |-> "loop"]
    /\ hIdx = [h \in Hunters |-> 0]
    /\ hJ = [h \in Hunters |-> 0]
    /\ hTmp = [h \in Hunters |-> 0]
    /\ hNew = [h \in Hunters |-> Van]
    /\ hFrom = [h \in Hunters |-> Van]
    /\ hEv = [h \in Hunters |-> EV_UNKNOWN]
    /\ pool = << >>
    /\ poolSem = 1
    /\ hunterCount = NUM_HUNTERS
    /\ gameOver = 0
    /\ mPc = "join"
    /\ verdict = "none"
    /\ reviewResult = "none"
    /\ flagWriters = {}
    /\ rngGhost = rg
    /\ rngHunter = rh
    /\ rngPos = [t \in {0} \cup Hunters |-> 1]
    /\ startAt = sched
    /\ call = NoCall
    /\ collectLog = [h \in Hunters |-> 0]

Threads == {0} \cup Hunters

\* the threads the scheduler lets run: a thread created by pthread_create
\* (main.c:115, 124) runs from the moment the scheduler first picks it
scheduled == {t \in Threads : rngPos[0] >= startAt[t]}

\* schedules: every thread runs from the start; a thread that is never run
Always == [t \in Threads |-> 1]
never(stream) == Len(stream) + 1

\* the position in a stream after one more draw; the stream's last entry
\* stands for every later draw
nextDraw(stream, pos) == IF pos < Len(stream) THEN pos + 1 ELSE pos

\* the values the draw at a position of a stream may take, of those the
\* call can yield; a stream never leaves a draw without a value
drawn(stream, pos, range) ==
    IF range \cap stream[pos] = {} THEN range ELSE range \cap stream[pos]

(* ----------------------------- ghost thread ---------------------------- *)
\* ghostBehaviour's loop condition without the test of gameOver: a faulty
\* variant, against which C2 is tried
GhostLoopUnflagged ==
    /\ gPc = "loop"
    /\ gPc' = IF gBoredom < BOREDOM_MAX THEN "present" ELSE "done"
    /\ gIdx' = 0
    /\ UNCHANGED <<gRoom, gType, gBoredom, gSeen, gEv, ctxNumHunters>>
    /\ UNCHANGED <<roomVars, hunterVars, houseVars, mainVars, flagWriters, rngVars, rngPos, unitVars, logVars>>

\* ghostBehaviour's loop condition (ghost.c:132); pthread_exit when it fails
GhostLoop ==
    /\ gPc = "loop"
    /\ gPc' = IF gBoredom < BOREDOM_MAX /\ gameOver = 0 THEN "present" ELSE "done"
    /\ gIdx' = 0
    /\ UNCHANGED <<gRoom, gType, gBoredom, gSeen, gEv, ctxNumHunters>>
    /\ UNCHANGED <<roomVars, hunterVars, houseVars, mainVars, flagWriters, rngVars, rngPos, unitVars, logVars>>

\* isValidGhostAndHunterList(ghost, list, numHunters) on house->hunterArray,
\* whose size stays NUM_HUNTERS
isValidGhostAndHunterList == NUM_HUNTERS > 0 /\ ctxNumHunters > 0

\* isSameRoom(room1, room2)
isSameRoom(room1, room2) == room1 = room2

\* isHunterPresent(ghost, list, numHunters): one step per hunter->room read
IsHunterPresent ==
    /\ gPc = "present"
    /\ IF ~isValidGhostAndHunterList \/ gIdx >= NUM_HUNTERS
       THEN gSeen' = FALSE /\ gPc' = "update" /\ gIdx' = 0
       ELSE IF isSameRoom(gRoom, hRoom[gIdx + 1])
            THEN gSeen' = TRUE /\ gPc' = "update" /\ gIdx' = 0
            ELSE gSeen' = gSeen /\ gPc' = "present" /\ gIdx' = gIdx + 1
    /\ UNCHANGED <<gRoom, gType, gBoredom, gEv, ctxNumHunters>>
    /\ UNCHANGED <<roomVars, hunterVars, houseVars, mainVars, flagWriters, rngVars, rngPos, unitVars, logVars>>

\* moveToRandomRoomGhost taking the index in the house's list of rooms: a
\* faulty variant, against which C26 is tried
moveToRandomRoomOfHouse(room, targetIndex) ==
    IF targetIndex + 1 <= NumRooms THEN targetIndex + 1 ELSE room

\* moveToRandomRoomGhost(ghost): the room targetIndex steps from the head
\* of the current room's list
moveToRandomRoomGhost(room, targetIndex) ==
    IF targetIndex + 1 <= Len(roomlist[room]) THEN roomlist[room][targetIndex + 1] ELSE room

\* updateGhost's test with > for >=: a faulty variant, against which C10 is
\* tried
ghostBoredStrictly(b) == b > BOREDOM_MAX

\* updateGhost's test of the boredom counter (ghost.c:61)
ghostBored(b) == b >= BOREDOM_MAX

\* updateGhost's test before a move without the presence test's result: a
\* faulty variant, against which C25 is tried
ghostMayMoveAnyway(isHunterInRoom) == TRUE

\* updateGhost's test before a move (ghost.c:77); ghost->room is never NULL
ghostMayMove(isHunterInRoom) == ~isHunterInRoom

\* updateGhost after the presence test (ghost.c:58-82): the boredom update,
\* the exit when bored, else the drawn action.  A deposit goes on to addEv.
UpdateGhost ==
    /\ gPc = "update"
    /\ LET b == IF gSeen THEN 0 ELSE gBoredom + 1
       IN /\ gBoredom' = b
          /\ IF ghostBored(b)
             THEN /\ gameOver' = 1
                  /\ flagWriters' = flagWriters \cup {0}
                  /\ gPc' = "done"
                  /\ UNCHANGED <<gRoom, gEv, rngPos>>
             ELSE /\ UNCHANGED <<gameOver, flagWriters>>
                  /\ \E action \in drawn(rngGhost, rngPos[0], randInt(0, 3)) :
                        LET second == nextDraw(rngGhost, rngPos[0])
                        IN CASE action = 1 /\ Len(ledger[gRoom]) < MaxLedger ->
                                /\ \E choice \in drawn(rngGhost, second, randInt(0, 3)) :
                                      gEv' = determineEvidenceType(gType, choice)
                                /\ gPc' = "ev_wait"
                                /\ rngPos' = [rngPos EXCEPT ![0] = nextDraw(rngGhost, second)]
                                /\ UNCHANGED gRoom
                             [] action = 2 /\ ghostMayMove(gSeen) ->
                                /\ \E targetIndex \in drawn(rngGhost, second,
                                                            randInt(0, Len(roomlist[gRoom]) - 1)) :
                                      gRoom' = moveToRandomRoomGhost(gRoom, targetIndex)
                                /\ gPc' = "loop"
                                /\ rngPos' = [rngPos EXCEPT ![0] = nextDraw(rngGhost, second)]
                                /\ UNCHANGED gEv
                             [] OTHER ->
                                /\ gPc' = "loop"
                                /\ rngPos' = [rngPos EXCEPT ![0] = second]
                                /\ UNCHANGED <<gRoom, gEv>>
    /\ UNCHANGED <<gType, gIdx, gSeen, ctxNumHunters>>
    /\ UNCHANGED <<roomVars, hunterVars, pool, poolSem, hunterCount, mainVars, rngVars, unitVars, logVars>>

\* addEv: sem_wait on the room's evidence list (evidence.c:100)
AddEvWait ==
    /\ gPc = "ev_wait"
    /\ ledgerSem[gRoom] = 1
    /\ ledgerSem' = [ledgerSem EXCEPT ![gRoom] = 0]
    /\ gPc' = "ev_append"
    /\ UNCHANGED <<gRoom, gType, gBoredom, gIdx, gSeen, gEv, ctxNumHunters>>
    /\ UNCHANGED <<ledger, rosterArr, rosterSize, rosterSem>>
    /\ UNCHANGED <<hunterVars, houseVars, mainVars, flagWriters, rngVars, rngPos, unitVars, logVars>>

\* addEv: the append at the tail (evidence.c:101-109)
AddEvAppend ==
    /\ gPc = "ev_append"
    /\ ledger' = [ledger EXCEPT ![gRoom] = Append(@, gEv)]
    /\ gPc' = "ev_post"
    /\ UNCHANGED <<gRoom, gType, gBoredom, gIdx, gSeen, gEv, ctxNumHunters>>
    /\ UNCHANGED <<ledgerSem, rosterArr, rosterSize, rosterSem>>
    /\ UNCHANGED <<hunterVars, houseVars, mainVars, flagWriters, rngVars, rngPos, unitVars, logVars>>

\* addEv: sem_post (evidence.c:110), then back to the loop
AddEvPost ==
    /\ gPc = "ev_post"
    /\ ledgerSem' = [ledgerSem EXCEPT ![gRoom] = 1]
    /\ gPc' = "loop"
    /\ gEv' = EV_UNKNOWN
    /\ UNCHANGED <<gRoom, gType, gBoredom, gIdx, gSeen, ctxNumHunters>>
    /\ UNCHANGED <<ledger, rosterArr, rosterSize, rosterSem>>
    /\ UNCHANGED <<hunterVars, houseVars, mainVars, flagWriters, rngVars, rngPos, unitVars, logVars>>

Ghost ==
    /\ 0 \in scheduled
    /\ (GhostLoop \/ IsHunterPresent \/ UpdateGhost \/ AddEvWait \/ AddEvAppend \/ AddEvPost)


(* ----------------------------- hunter threads -------------------------- *)
\* hunterBehaviour's loop condition without the test of gameOver: a faulty
\* variant, against which C21 is tried
HunterLoopUnflagged(h) ==
    /\ hPc[h] = "loop"
    /\ hPc' = [hPc EXCEPT ![h] =
                 IF fear[h] < FEAR_MAX /\ boredom[h] < BOREDOM_MAX
                 THEN "update" ELSE "exit_end"]
    /\ UNCHANGED <<hRoom, fear, boredom, equipment, hIdx, hJ, hTmp, hNew, hFrom, hEv>>
    /\ UNCHANGED <<ghostVars, roomVars, houseVars, mainVars, flagWriters, rngVars, rngPos, unitVars, logVars>>

\* hunterBehaviour's loop condition (hunter.c:155); pthread_exit (hunter.c:164)
\* when it fails
HunterLoop(h) ==
    /\ hPc[h] = "loop"
    /\ hPc' = [hPc EXCEPT ![h] =
                 IF fear[h] < FEAR_MAX /\ boredom[h] < BOREDOM_MAX /\ gameOver = 0
                 THEN "update" ELSE "exit_end"]
    /\ UNCHANGED <<hRoom, fear, boredom, equipment, hIdx, hJ, hTmp, hNew, hFrom, hEv>>
    /\ UNCHANGED <<ghostVars, roomVars, houseVars, mainVars, flagWriters, rngVars, rngPos, unitVars, logVars>>

\* isGhostPresent comparing the hunter's room with the Van instead of the
\* ghost's room: a faulty variant, against which C15 is tried
isGhostPresentInVan(h) == hRoom[h] = Van

\* isGhostPresent(ghost, hunter)
isGhostPresent(h) == hRoom[h] = gRoom

\* getRoomAtIndex(roomList, index) for the index drawn by getRandomRoomIndex;
\* 0 stands for NULL
getRoomAtIndex(list, index) ==
    IF index + 1 <= Len(list) THEN list[index + 1] ELSE 0

\* updateHunterState's test without the boredom counter: a faulty variant,
\* against which C23 is tried
hunterMaxedByFear(f, b) == f >= FEAR_MAX

\* updateHunterState's test of the counters it has just updated
\* (hunter.c:196)
hunterMaxed(f, b) == f >= FEAR_MAX \/ b >= BOREDOM_MAX

\* updateHunterState up to the choice of the action (hunter.c:187-203, 256):
\* the fear and boredom update, the retirement (which goes on to
\* decrementHunterCount), else the action drawn by performHunterAction.
UpdateHunterState(h) ==
    /\ hPc[h] = "update"
    /\ LET f == IF isGhostPresent(h)
                THEN (IF fear[h] < FEAR_MAX THEN fear[h] + 1 ELSE FEAR_MAX)
                ELSE fear[h]
           b == IF isGhostPresent(h) THEN 0
                ELSE (IF boredom[h] < BOREDOM_MAX THEN boredom[h] + 1 ELSE BOREDOM_MAX)
       IN /\ fear' = [fear EXCEPT ![h] = f]
          /\ boredom' = [boredom EXCEPT ![h] = b]
          /\ IF hunterMaxed(f, b)
             THEN /\ hPc' = [hPc EXCEPT ![h] = "dec_test"]
                  /\ UNCHANGED <<hNew, hFrom, hIdx, rngPos>>
             ELSE \E action \in drawn(rngHunter[h], rngPos[h], randInt(0, 3)) :
                     LET second == nextDraw(rngHunter[h], rngPos[h])
                     IN CASE action = 0 ->
                            /\ rngPos' = [rngPos EXCEPT ![h] = nextDraw(rngHunter[h], second)]
                            /\ \E targetRoomIndex \in drawn(rngHunter[h], second,
                                                            randInt(0, Len(roomlist[hRoom[h]]) - 1)) :
                                  LET newRoom == getRoomAtIndex(roomlist[hRoom[h]], targetRoomIndex)
                                  IN IF newRoom # 0
                                     THEN /\ hNew' = [hNew EXCEPT ![h] = newRoom]
                                          /\ hFrom' = [hFrom EXCEPT ![h] = hRoom[h]]
                                          /\ hIdx' = [hIdx EXCEPT ![h] = 0]
                                          /\ hPc' = [hPc EXCEPT ![h] = "rm_test"]
                                     ELSE /\ hPc' = [hPc EXCEPT ![h] = "post"]
                                          /\ UNCHANGED <<hNew, hFrom, hIdx>>
                          [] action = 1 ->
                            /\ hPc' = [hPc EXCEPT ![h] = "collect"]
                            /\ rngPos' = [rngPos EXCEPT ![h] = second]
                            /\ UNCHANGED <<hNew, hFrom, hIdx>>
                          [] action = 2 ->
                            /\ hPc' = [hPc EXCEPT ![h] = "review"]
                            /\ rngPos' = [rngPos EXCEPT ![h] = second]
                            /\ UNCHANGED <<hNew, hFrom, hIdx>>
                          [] OTHER ->
                            /\ hPc' = [hPc EXCEPT ![h] = "post"]
                            /\ rngPos' = [rngPos EXCEPT ![h] = second]
                            /\ UNCHANGED <<hNew, hFrom, hIdx>>
    /\ UNCHANGED <<hRoom, equipment, hJ, hTmp, hEv>>
    /\ UNCHANGED <<ghostVars, roomVars, houseVars, mainVars, flagWriters, rngVars, unitVars, logVars>>

\* decrementHunterCount: the test house->hunterCount > 0 (hunter.c:236)
DecrementTest(h) ==
    /\ hPc[h] = "dec_test"
    /\ hPc' = [hPc EXCEPT ![h] = IF hunterCount > 0 THEN "dec_load" ELSE "exit_retire"]
    /\ UNCHANGED <<hRoom, fear, boredom, equipment, hIdx, hJ, hTmp, hNew, hFrom, hEv>>
    /\ UNCHANGED <<ghostVars, roomVars, houseVars, mainVars, flagWriters, rngVars, rngPos, unitVars, logVars>>

\* decrementHunterCount: the load of house->hunterCount-- (hunter.c:237)
DecrementLoad(h) ==
    /\ hPc[h] = "dec_load"
    /\ hTmp' = [hTmp EXCEPT ![h] = hunterCount]
    /\ hPc' = [hPc EXCEPT ![h] = "dec_store"]
    /\ UNCHANGED <<hRoom, fear, boredom, equipment, hIdx, hJ, hNew, hFrom, hEv>>
    /\ UNCHANGED <<ghostVars, roomVars, houseVars, mainVars, flagWriters, rngVars, rngPos, unitVars, logVars>>

\* decrementHunterCount: the store of house->hunterCount-- (hunter.c:237),
\* then pthread_exit (hunter.c:199)
DecrementStore(h) ==
    /\ hPc[h] = "dec_store"
    /\ hunterCount' = hTmp[h] - 1
    /\ hTmp' = [hTmp EXCEPT ![h] = 0]
    /\ hPc' = [hPc EXCEPT ![h] = "exit_retire"]
    /\ UNCHANGED <<hRoom, fear, boredom, equipment, hIdx, hJ, hNew, hFrom, hEv>>
    /\ UNCHANGED <<pool, poolSem, gameOver>>
    /\ UNCHANGED <<ghostVars, roomVars, mainVars, flagWriters, rngVars, rngPos, unitVars, logVars>>


\* hunter_list->hunter[i] of a room's hunterArray; a slot outside the
\* array reads as no hunter's name
Slot(r, i) == IF i \in 0..(NUM_HUNTERS - 1) THEN rosterArr[r][i] ELSE 0

hunterLocals == <<hIdx, hJ, hTmp, hNew, hFrom, hEv>>

\* removeHunter: the loop test index < hunters_list->size (hunter.c:397);
\* when it fails removeHunter returns and updateHunterLocation goes on
RemoveTest(h) ==
    /\ hPc[h] = "rm_test"
    /\ hPc' = [hPc EXCEPT ![h] = IF hIdx[h] < rosterSize[hFrom[h]] THEN "rm_cmp" ELSE "set_room"]
    /\ UNCHANGED <<hRoom, fear, boredom, equipment, hunterLocals>>
    /\ UNCHANGED <<ghostVars, roomVars, houseVars, mainVars, flagWriters, rngVars, rngPos, unitVars, logVars>>

\* removeHunter: the strcmp of the slot's name with the hunter's (hunter.c:398)
RemoveCompare(h) ==
    /\ hPc[h] = "rm_cmp"
    /\ IF Slot(hFrom[h], hIdx[h]) = h
       THEN /\ hJ' = [hJ EXCEPT ![h] = hIdx[h]]
            /\ hIdx' = hIdx
            /\ hPc' = [hPc EXCEPT ![h] = "rm_shift_test"]
       ELSE /\ hIdx' = [hIdx EXCEPT ![h] = @ + 1]
            /\ hJ' = hJ
            /\ hPc' = [hPc EXCEPT ![h] = "rm_test"]
    /\ UNCHANGED <<hRoom, fear, boredom, equipment, hTmp, hNew, hFrom, hEv>>
    /\ UNCHANGED <<ghostVars, roomVars, houseVars, mainVars, flagWriters, rngVars, rngPos, unitVars, logVars>>

\* removeHunter: the inner loop test j < hunters_list->size - 1 (hunter.c:400)
RemoveShiftTest(h) ==
    /\ hPc[h] = "rm_shift_test"
    /\ hPc' = [hPc EXCEPT ![h] = IF hJ[h] < rosterSize[hFrom[h]] - 1 THEN "rm_shift" ELSE "rm_load"]
    /\ UNCHANGED <<hRoom, fear, boredom, equipment, hunterLocals>>
    /\ UNCHANGED <<ghostVars, roomVars, houseVars, mainVars, flagWriters, rngVars, rngPos, unitVars, logVars>>

\* removeHunter: hunter[j] = hunter[j + 1]; j++ (hunter.c:400-401)
RemoveShift(h) ==
    /\ hPc[h] = "rm_shift"
    /\ rosterArr' = [rosterArr EXCEPT ![hFrom[h]] =
                       IF hJ[h] \in 0..(NUM_HUNTERS - 1)
                       THEN [@ EXCEPT ![hJ[h]] = Slot(hFrom[h], hJ[h] + 1)]
                       ELSE @]
    /\ hJ' = [hJ EXCEPT ![h] = @ + 1]
    /\ hPc' = [hPc EXCEPT ![h] = "rm_shift_test"]
    /\ UNCHANGED <<hRoom, fear, boredom, equipment, hIdx, hTmp, hNew, hFrom, hEv>>
    /\ UNCHANGED <<ledger, ledgerSem, rosterSize, rosterSem>>
    /\ UNCHANGED <<ghostVars, houseVars, mainVars, flagWriters, rngVars, rngPos, unitVars, logVars>>

\* removeHunter: the load of hunters_list->size-- (hunter.c:403)
RemoveLoad(h) ==
    /\ hPc[h] = "rm_load"
    /\ hTmp' = [hTmp EXCEPT ![h] = rosterSize[hFrom[h]]]
    /\ hPc' = [hPc EXCEPT ![h] = "rm_store"]
    /\ UNCHANGED <<hRoom, fear, boredom, equipment, hIdx, hJ, hNew, hFrom, hEv>>
    /\ UNCHANGED <<ghostVars, roomVars, houseVars, mainVars, flagWriters, rngVars, rngPos, unitVars, logVars>>

\* removeHunter: the store of hunters_list->size-- (hunter.c:403), then break
RemoveStore(h) ==
    /\ hPc[h] = "rm_store"
    /\ rosterSize' = [rosterSize EXCEPT ![hFrom[h]] = hTmp[h] - 1]
    /\ hTmp' = [hTmp EXCEPT ![h] = 0]
    /\ hPc' = [hPc EXCEPT ![h] = "set_room"]
    /\ UNCHANGED <<hRoom, fear, boredom, equipment, hIdx, hJ, hNew, hFrom, hEv>>
    /\ UNCHANGED <<ledger, ledgerSem, rosterArr, rosterSem>>
    /\ UNCHANGED <<ghostVars, houseVars, mainVars, flagWriters, rngVars, rngPos, unitVars, logVars>>

\* updateHunterLocation: hunter->room = newRoom (utils.c:256)
SetRoom(h) ==
    /\ hPc[h] = "set_room"
    /\ hRoom' = [hRoom EXCEPT ![h] = hNew[h]]
    /\ hIdx' = [hIdx EXCEPT ![h] = 0]
    /\ hJ' = [hJ EXCEPT ![h] = 0]
    /\ hPc' = [hPc EXCEPT ![h] = "add_wait"]
    /\ UNCHANGED <<fear, boredom, equipment, hTmp, hNew, hFrom, hEv>>
    /\ UNCHANGED <<ghostVars, roomVars, houseVars, mainVars, flagWriters, rngVars, rngPos, unitVars, logVars>>

\* addHunter: sem_wait (hunter.c:107)
AddWait(h) ==
    /\ hPc[h] = "add_wait"
    /\ rosterSem[hNew[h]] = 1
    /\ rosterSem' = [rosterSem EXCEPT ![hNew[h]] = 0]
    /\ hPc' = [hPc EXCEPT ![h] = "add_check"]
    /\ UNCHANGED <<hRoom, fear, boredom, equipment, hunterLocals>>
    /\ UNCHANGED <<ledger, ledgerSem, rosterArr, rosterSize>>
    /\ UNCHANGED <<ghostVars, houseVars, mainVars, flagWriters, rngVars, rngPos, unitVars, logVars>>

\* addHunter: the capacity test (hunter.c:110); a full array goes to the
\* sem_post of hunter.c:112
AddCheck(h) ==
    /\ hPc[h] = "add_check"
    /\ hPc' = [hPc EXCEPT ![h] = IF rosterSize[hNew[h]] >= NUM_HUNTERS THEN "add_post" ELSE "add_write"]
    /\ UNCHANGED <<hRoom, fear, boredom, equipment, hunterLocals>>
    /\ UNCHANGED <<ghostVars, roomVars, houseVars, mainVars, flagWriters, rngVars, rngPos, unitVars, logVars>>

\* addHunter: hunter[size] = *newHunter (hunter.c:117)
AddWrite(h) ==
    /\ hPc[h] = "add_write"
    /\ rosterArr' = [rosterArr EXCEPT ![hNew[h]] =
                       IF rosterSize[hNew[h]] \in 0..(NUM_HUNTERS - 1)
                       THEN [@ EXCEPT ![rosterSize[hNew[h]]] = h]
                       ELSE @]
    /\ hPc' = [hPc EXCEPT ![h] = "add_load"]
    /\ UNCHANGED <<hRoom, fear, boredom, equipment, hunterLocals>>
    /\ UNCHANGED <<ledger, ledgerSem, rosterSize, rosterSem>>
    /\ UNCHANGED <<ghostVars, houseVars, mainVars, flagWriters, rngVars, rngPos, unitVars, logVars>>

\* addHunter: the load of size++ (hunter.c:118)
AddLoad(h) ==
    /\ hPc[h] = "add_load"
    /\ hTmp' = [hTmp EXCEPT ![h] = rosterSize[hNew[h]]]
    /\ hPc' = [hPc EXCEPT ![h] = "add_store"]
    /\ UNCHANGED <<hRoom, fear, boredom, equipment, hIdx, hJ, hNew, hFrom, hEv>>
    /\ UNCHANGED <<ghostVars, roomVars, houseVars, mainVars, flagWriters, rngVars, rngPos, unitVars, logVars>>

\* addHunter: the store of size++ (hunter.c:118)
AddStore(h) ==
    /\ hPc[h] = "add_store"
    /\ rosterSize' = [rosterSize EXCEPT ![hNew[h]] = hTmp[h] + 1]
    /\ hTmp' = [hTmp EXCEPT ![h] = 0]
    /\ hPc' = [hPc EXCEPT ![h] = "add_post"]
    /\ UNCHANGED <<hRoom, fear, boredom, equipment, hIdx, hJ, hNew, hFrom, hEv>>
    /\ UNCHANGED <<ledger, ledgerSem, rosterArr, rosterSem>>
    /\ UNCHANGED <<ghostVars, houseVars, mainVars, flagWriters, rngVars, rngPos, unitVars, logVars>>

\* addHunter returning without its sem_post: a faulty variant, against
\* which C37 is tried
AddPostKeeping(h) ==
    /\ hPc[h] = "add_post"
    /\ rosterSem' = rosterSem
    /\ hPc' = [hPc EXCEPT ![h] = "post"]
    /\ UNCHANGED <<hRoom, fear, boredom, equipment, hunterLocals>>
    /\ UNCHANGED <<ledger, ledgerSem, rosterArr, rosterSize>>
    /\ UNCHANGED <<ghostVars, houseVars, mainVars, flagWriters, rngVars, rngPos, unitVars, logVars>>

\* addHunter: sem_post (hunter.c:112, 121); the move is done
AddPost(h) ==
    /\ hPc[h] = "add_post"
    /\ rosterSem' = [rosterSem EXCEPT ![hNew[h]] = 1]
    /\ hPc' = [hPc EXCEPT ![h] = "post"]
    /\ UNCHANGED <<hRoom, fear, boredom, equipment, hunterLocals>>
    /\ UNCHANGED <<ledger, ledgerSem, rosterArr, rosterSize>>
    /\ UNCHANGED <<ghostVars, houseVars, mainVars, flagWriters, rngVars, rngPos, unitVars, logVars>>


\* collectEv's range check on the kind (evidence.c:149)
collectEvValid(evidence) == ~(evidence >= EV_UNKNOWN \/ evidence < EMF)

\* collectEv's critical section without the isEvidenceCollected test: a
\* faulty variant, against which C1 is tried
collectEvUnchecked(arr, evidence) ==
    IF Len(arr) >= MAX_EV THEN arr ELSE Append(arr, evidence)

\* collectEv's critical section (evidence.c:158-168): the array afterwards
collectEv(arr, evidence) ==
    IF Len(arr) >= MAX_EV THEN arr
    ELSE IF isEvidenceCollected(arr, evidence) THEN arr
    ELSE Append(arr, evidence)

\* collectEv's return value without the isEvidenceCollected test: a faulty
\* variant, against which C13 is tried
collectEvResultOfSize(arr, evidence) ==
    IF Len(arr) >= MAX_EV THEN -1 ELSE 1

\* collectEv's return value (evidence.c:167, 172)
collectEvResult(arr, evidence) ==
    IF Len(arr) >= MAX_EV THEN -1
    ELSE IF isEvidenceCollected(arr, evidence) THEN -1
    ELSE 1

\* collectEvidenceIfNeeded: doesEvidenceExist on the hunter's room
\* (hunter.c:277-278), then collectEv's checks before its sem_wait
CollectEvidenceIfNeeded(h) ==
    /\ hPc[h] = "collect"
    /\ LET collectedEv == doesEvidenceExist(ledger[hRoom[h]], equipment[h])
       IN /\ IF collectedEv # EV_UNKNOWN /\ collectEvValid(collectedEv)
             THEN /\ hEv' = [hEv EXCEPT ![h] = collectedEv]
                  /\ hPc' = [hPc EXCEPT ![h] = "cv_wait"]
             ELSE /\ hEv' = hEv
                  /\ hPc' = [hPc EXCEPT ![h] = "post"]
          \* collectEv's -1 for a value out of range is logged as well
          /\ collectLog' = [collectLog EXCEPT ![h] =
                  IF collectedEv # EV_UNKNOWN /\ ~collectEvValid(collectedEv) THEN @ + 1 ELSE @]
    /\ UNCHANGED <<hRoom, fear, boredom, equipment, hIdx, hJ, hTmp, hNew, hFrom>>
    /\ UNCHANGED <<ghostVars, roomVars, houseVars, mainVars, flagWriters, rngVars, rngPos, unitVars>>

\* collectEv: sem_wait (evidence.c:154)
CollectWait(h) ==
    /\ hPc[h] = "cv_wait"
    /\ poolSem = 1
    /\ poolSem' = 0
    /\ hPc' = [hPc EXCEPT ![h] = "cv_body"]
    /\ UNCHANGED <<hRoom, fear, boredom, equipment, hunterLocals>>
    /\ UNCHANGED <<pool, hunterCount, gameOver>>
    /\ UNCHANGED <<ghostVars, roomVars, mainVars, flagWriters, rngVars, rngPos, unitVars, logVars>>

\* collectEv: the critical section (evidence.c:158-165)
CollectBody(h) ==
    /\ hPc[h] = "cv_body"
    /\ pool' = collectEv(pool, hEv[h])
    /\ hTmp' = [hTmp EXCEPT ![h] = collectEvResult(pool, hEv[h])]
    /\ hPc' = [hPc EXCEPT ![h] = "cv_post"]
    /\ UNCHANGED <<hRoom, fear, boredom, equipment, hIdx, hJ, hNew, hFrom, hEv>>
    /\ UNCHANGED <<poolSem, hunterCount, gameOver>>
    /\ UNCHANGED <<ghostVars, roomVars, mainVars, flagWriters, rngVars, rngPos, unitVars, logVars>>

\* collectEv returning without its sem_post: a faulty variant, against
\* which C18 is tried
CollectPostKeeping(h) ==
    /\ hPc[h] = "cv_post"
    /\ poolSem' = poolSem
    /\ hTmp' = [hTmp EXCEPT ![h] = 0]
    /\ hEv' = [hEv EXCEPT ![h] = EV_UNKNOWN]
    /\ collectLog' = [collectLog EXCEPT ![h] = IF hTmp[h] # 0 THEN @ + 1 ELSE @]
    /\ hPc' = [hPc EXCEPT ![h] = "post"]
    /\ UNCHANGED <<hRoom, fear, boredom, equipment, hIdx, hJ, hNew, hFrom>>
    /\ UNCHANGED <<pool, hunterCount, gameOver>>
    /\ UNCHANGED <<ghostVars, roomVars, mainVars, flagWriters, rngVars, rngPos, unitVars>>

\* collectEv: sem_post (evidence.c:166, 171) and the return to
\* addEvidenceAndLog, which calls l_hunterCollect when the value returned
\* is not 0 (hunter.c:288-290), and to collectEvidenceIfNeeded
CollectPost(h) ==
    /\ hPc[h] = "cv_post"
    /\ poolSem' = 1
    /\ hTmp' = [hTmp EXCEPT ![h] = 0]
    /\ hEv' = [hEv EXCEPT ![h] = EV_UNKNOWN]
    /\ collectLog' = [collectLog EXCEPT ![h] = IF hTmp[h] # 0 THEN @ + 1 ELSE @]
    /\ hPc' = [hPc EXCEPT ![h] = "post"]
    /\ UNCHANGED <<hRoom, fear, boredom, equipment, hIdx, hJ, hNew, hFrom>>
    /\ UNCHANGED <<pool, hunterCount, gameOver>>
    /\ UNCHANGED <<ghostVars, roomVars, mainVars, flagWriters, rngVars, rngPos, unitVars>>

\* reviewEvidenceAndExitIfNeeded (hunter.c:295-302): pthread_exit when the
\* count is 3
ReviewEvidenceAndExitIfNeeded(h) ==
    /\ hPc[h] = "review"
    /\ hPc' = [hPc EXCEPT ![h] = IF isSufficientEvidence(pool) >= 3 THEN "exit_review" ELSE "post"]
    /\ UNCHANGED <<hRoom, fear, boredom, equipment, hunterLocals>>
    /\ UNCHANGED <<ghostVars, roomVars, houseVars, mainVars, flagWriters, rngVars, rngPos, unitVars, logVars>>

\* hunterBehaviour's test looking for a pool beyond its capacity: a
\* faulty variant, against which C36 is tried
gameShouldEndOverfull(count, size) == count = 0 \/ size > 3

\* hunterBehaviour's test without the pool's size: a faulty variant,
\* against which C9 is tried
gameShouldEndOnCount(count, size) == count = 0

\* hunterBehaviour's test after updateHunterState returned (hunter.c:158)
gameShouldEnd(count, size) == count = 0 \/ size >= 3

\* hunterBehaviour after updateHunterState returned, storing 0 to the flag
\* when the test fails: a faulty variant, against which C17 is tried
PostActionCheckClearing(h) ==
    /\ hPc[h] = "post"
    /\ IF gameShouldEnd(hunterCount, Len(pool))
       THEN /\ gameOver' = 1
            /\ flagWriters' = flagWriters \cup {h}
            /\ hPc' = [hPc EXCEPT ![h] = "exit_end"]
       ELSE /\ gameOver' = 0
            /\ UNCHANGED flagWriters
            /\ hPc' = [hPc EXCEPT ![h] = "loop"]
    /\ UNCHANGED <<hRoom, fear, boredom, equipment, hunterLocals>>
    /\ UNCHANGED <<pool, poolSem, hunterCount>>
    /\ UNCHANGED <<ghostVars, roomVars, mainVars, rngVars, rngPos, unitVars, logVars>>

\* hunterBehaviour after updateHunterState returned (hunter.c:158-161): both
\* conditions, once true, stay true, so the test and the store are one step
PostActionCheck(h) ==
    /\ hPc[h] = "post"
    /\ IF gameShouldEnd(hunterCount, Len(pool))
       THEN /\ gameOver' = 1
            /\ flagWriters' = flagWriters \cup {h}
            /\ hPc' = [hPc EXCEPT ![h] = "exit_end"]
       ELSE /\ UNCHANGED <<gameOver, flagWriters>>
            /\ hPc' = [hPc EXCEPT ![h] = "loop"]
    /\ UNCHANGED <<hRoom, fear, boredom, equipment, hunterLocals>>
    /\ UNCHANGED <<pool, poolSem, hunterCount>>
    /\ UNCHANGED <<ghostVars, roomVars, mainVars, rngVars, rngPos, unitVars, logVars>>

HunterExited(h) == hPc[h] \in {"exit_retire", "exit_review", "exit_end"}

\* the steps of a hunter thread, by the part of hunterBehaviour they belong to
HunterTick(h) ==
    \/ HunterLoop(h) \/ UpdateHunterState(h)
    \/ DecrementTest(h) \/ DecrementLoad(h) \/ DecrementStore(h)
    \/ PostActionCheck(h)

HunterMove(h) ==
    \/ RemoveTest(h) \/ RemoveCompare(h) \/ RemoveShiftTest(h) \/ RemoveShift(h)
    \/ RemoveLoad(h) \/ RemoveStore(h) \/ SetRoom(h)
    \/ AddWait(h) \/ AddCheck(h) \/ AddWrite(h) \/ AddLoad(h) \/ AddStore(h) \/ AddPost(h)

HunterCollect(h) ==
    \/ CollectEvidenceIfNeeded(h) \/ CollectWait(h) \/ CollectBody(h) \/ CollectPost(h)
    \/ ReviewEvidenceAndExitIfNeeded(h)

Hunter(h) ==
    /\ h \in scheduled
    /\ (HunterTick(h) \/ HunterMove(h) \/ HunterCollect(h))

(* ----------------------------- main thread ----------------------------- *)
\* waitForThreadsCompletion: the joins return once the ghost thread and
\* every hunter thread have exited
WaitForThreadsCompletion ==
    /\ mPc = "join"
    /\ gPc = "done"
    /\ \A h \in Hunters : HunterExited(h)
    /\ mPc' = "evaluate"
    /\ UNCHANGED <<verdict, reviewResult>>
    /\ UNCHANGED <<ghostVars, roomVars, hunterVars, houseVars, flagWriters, rngVars, rngPos, unitVars, logVars>>

\* reviewEv(evidenceArray, ghost): the line it prints
reviewEv(arr, ghostType) ==
    IF Len(arr) # 3 THEN "not_enough"
    ELSE IF identifyGhostFromEvidence(arr) = ghostType THEN "correct"
    ELSE "incorrect"

\* evaluateGameOutcome's counts (main.c:157-175); house->hunterArray keeps
\* the NUM_HUNTERS entries of initializeHunters
fear_count(f) ==
    IF NUM_HUNTERS = 0 THEN NUM_HUNTERS
    ELSE Cardinality({h \in Hunters : f[h] >= OutcomeLimit})

boredom_count_hunter(b) == Cardinality({h \in Hunters : b[h] >= OutcomeLimit})

\* evaluateGameOutcome's verdict with > for == in the test of the pool's
\* size: a faulty variant, against which C7 is tried
evaluateGameOutcomeOver(f, b, evidenceSize, ghostBoredom) ==
    IF fear_count(f) = NUM_HUNTERS \/ boredom_count_hunter(b) = NUM_HUNTERS
    THEN "ghost_wins"
    ELSE IF evidenceSize > 3 /\ ghostBoredom < OutcomeLimit THEN "hunters_win"
    ELSE "ghost_left"

\* evaluateGameOutcome's verdict (main.c:184-190)
evaluateGameOutcome(f, b, evidenceSize, ghostBoredom) ==
    IF fear_count(f) = NUM_HUNTERS \/ boredom_count_hunter(b) = NUM_HUNTERS
    THEN "ghost_wins"
    ELSE IF evidenceSize = 3 /\ ghostBoredom < OutcomeLimit THEN "hunters_win"
    ELSE "ghost_left"

EvaluateGameOutcome ==
    /\ mPc = "evaluate"
    \* reviewEv's sem_wait and sem_post (evidence.c:232-235), made when size is 3
    /\ Len(pool) = 3 => poolSem = 1
    /\ reviewResult' = reviewEv(pool, gType)
    /\ verdict' = evaluateGameOutcome(fear, boredom, Len(pool), gBoredom)
    /\ mPc' = "done"
    /\ UNCHANGED <<ghostVars, roomVars, hunterVars, houseVars, flagWriters, rngVars, rngPos, unitVars, logVars>>

Main == WaitForThreadsCompletion \/ EvaluateGameOutcome

(* ----------------------------- specification --------------------------- *)
Next == Ghost \/ (\E h \in Hunters : Hunter(h)) \/ Main

\* Every run of the program: any placement, class and equipment, any
\* outcome of the random draws, any schedule.
Init ==
    \E room \in getRandomRoomExcludeVan, type \in randomGhost,
       equip \in assignRandomEquipment, numHunters \in {0, NUM_HUNTERS} :
          InitWith(room, type, equip, numHunters,
                   <<0..NumRooms>>, [h \in Hunters |-> <<0..NumRooms>>], Always)

Spec == Init /\ [][Next]_vars

(* ------------------------------- scenarios ----------------------------- *)
\* The runs that are explored.  Each scenario fixes the ghost's room and
\* class, the equipment (hunter i carries kind i - 1), what is in the
\* ghost context's numHunters, the streams of the random source and the
\* schedule; the interleaving of the scheduled threads is free.
Equipped == [h \in Hunters |-> h - 1]

\* a thread that draws "do nothing" at every tick
Idle == <<{3}>>

\* Relocation: hunters 1 and 2 each leave the Van for the Hallway and then
\* idle until bored; the other threads are not run.
InitRelocation ==
    InitWith(NumRooms, POLTERGEIST, Equipped, 0, Idle,
             [h \in Hunters |-> <<{0}, {0}, {3}>>],
             [t \in Threads |-> IF t \in {1, 2} THEN 1 ELSE never(Idle)])

\* the ghost's stream: move (to the first neighbour) whenever it may
Roaming == <<{2}, {0}>>

\* schedules: the hunters are first run after the ghost's first move
AfterMove == [t \in Threads |-> IF t = 0 THEN 1 ELSE Len(Roaming)]

\* Bored: the ghost's context holds no hunters, so it never sees one: it
\* goes from the Hallway to the Van and back and is bored out; the
\* hunters idle.
InitBored(sched) ==
    InitWith(2, POLTERGEIST, Equipped, 0, Roaming, [h \in Hunters |-> Idle], sched)

\* Haunted: the same with the hunters in the ghost's context.
InitHaunted(sched) ==
    InitWith(2, POLTERGEIST, Equipped, NUM_HUNTERS, Roaming, [h \in Hunters |-> Idle], sched)

\* the ghost's stream: move to the first neighbour, deposit the kinds of
\* choices 0, 1 and 2, then do nothing
Depositing == <<{2}, {0}, {1}, {0}, {1}, {1}, {1}, {2}, {0}>>

\* Evidence: the ghost goes from the Hallway to the Van and leaves its
\* three kinds there; the hunters collect, hunter 1 reviews from its third
\* tick on; hunters 2 and 3 are first run when the ghost makes its last
\* draws.
InitEvidence ==
    InitWith(2, POLTERGEIST, Equipped, NUM_HUNTERS, Depositing,
             [h \in Hunters |-> IF h = 1 THEN <<{1}, {1}, {2}>> ELSE <<{1}>>],
             [t \in Threads |-> IF t \in {0, 1} THEN 1 ELSE Len(Depositing)])

InitScenarios == InitRelocation \/ InitBored(Always) \/ InitHaunted(Always) \/ InitEvidence

Scenarios == InitScenarios /\ [][Next]_vars

\* The scenarios in which every thread is run and no hunter draws a move,
\* the hunters first run after the ghost's first move, with their steps:
\* the steps of Next less the relocation's.
InitStill == InitBored(AfterMove) \/ InitHaunted(AfterMove) \/ InitEvidence

NextStill ==
    \/ Ghost
    \/ \E h \in Hunters : h \in scheduled /\ (HunterTick(h) \/ HunterCollect(h))
    \/ Main

\* Fair scheduling: a thread that can take a step is not left waiting for
\* ever (the threads sleep and wake with usleep; the semaphores are
\* released after finitely many steps of their holder).
Fairness ==
    /\ WF_vars(Ghost)
    /\ \A h \in Hunters : WF_vars(Hunter(h))
    /\ WF_vars(Main)

FairScenarios == InitStill /\ [][NextStill]_vars /\ Fairness

\* the ghost's stream: move to the first neighbour, deposit the kind of
\* choice 0, then do nothing
DepositingOnce == <<{2}, {0}, {1}, {0}, {3}>>

\* Same kind: collectEv called by several threads with one kind.  The
\* ghost goes from the Hallway to the Van, leaves EMF there and is bored
\* out; hunters 1 and 2 both carry EMF (assignRandomEquipment hands out
\* distinct kinds: here two callers of collectEv are given the same one),
\* all hunters collect at every tick and are first run when the ghost has
\* drawn its deposit.
InitSameKind ==
    InitWith(2, POLTERGEIST, [h \in Hunters |-> IF h \in {1, 2} THEN EMF ELSE TEMPERATURE],
             0, DepositingOnce, [h \in Hunters |-> <<{1}>>],
             [t \in Threads |-> IF t = 0 THEN 1 ELSE Len(DepositingOnce)])

SameKind == InitSameKind /\ [][Next]_vars

\* the ghost's stream: a move to any neighbour, a move to the first
\* neighbour, then nothing
Straying == <<{2}, 0..NumRooms, {2}, {0}, {0}>>

\* a hunter's stream: a move to the first neighbour, a move to any
\* neighbour, then nothing
Exploring == <<{0}, {0}, {0}, 0..NumRooms, {3}>>

\* Wandering: the ghost starts in any room but the Van and moves whenever
\* it may, with or without the hunters in its context; hunter 1 moves
\* twice; the other hunters are in the Van and are not run.
InitWandering ==
    \E room \in getRandomRoomExcludeVan, numHunters \in {0, NUM_HUNTERS} :
        InitWith(room, POLTERGEIST, Equipped, numHunters, Straying,
                 [h \in Hunters |-> IF h = 1 THEN Exploring ELSE Idle],
                 [t \in Threads |-> IF t \in {0, 1} THEN 1 ELSE never(Straying)])

\* the steps of the ghost and hunter threads; the main thread is in
\* pthread_join
NextThreads == Ghost \/ \E h \in Hunters : Hunter(h)

Wandering == InitWandering /\ [][NextThreads]_vars

\* the ghost's stream: a deposit or a move of any choice, then a deposit
Leaving == <<{1, 2}, randInt(0, 3), {1}, randInt(0, 3)>>

\* Deposits: a ghost of any class randomGhost can return starts in the
\* Hallway, no hunters in its context, and is bored out after two actions;
\* hunter 1 idles in the Van and is first run when the ghost has drawn its
\* second action.
InitDeposits ==
    \E type \in randomGhost :
        InitWith(2, type, Equipped, 0, Leaving, [h \in Hunters |-> Idle],
                 [t \in Threads |-> IF t = 0 THEN 1
                                    ELSE IF t = 1 THEN Len(Leaving) ELSE never(Leaving)])

Deposits == InitDeposits /\ [][NextThreads]_vars

\* Equipping: any equipment assignRandomEquipment can hand out.  The ghost
\* goes from the Hallway to the Van, leaves EMF there and is bored out;
\* hunter 1 collects at every tick from the ghost's deposit on.
InitEquipping ==
    \E equip \in assignRandomEquipment :
        InitWith(2, POLTERGEIST, equip, 0, DepositingOnce, [h \in Hunters |-> <<{1}>>],
                 [t \in Threads |-> IF t = 0 THEN 1
                                    ELSE IF t = 1 THEN Len(DepositingOnce)
                                    ELSE never(DepositingOnce)])

Equipping == InitEquipping /\ [][NextThreads]_vars

\* Identifying: a ghost of any class randomGhost can return, any set of
\* kinds assignRandomEquipment can hand out (of the assignments that differ
\* only in which hunter holds which kind, the one in increasing order), the
\* hunters in the ghost's context.  The ghost goes from the Hallway to the
\* Van and leaves there the kinds of choices 0, 1 and 2; every hunter
\* collects at every tick, hunter 1 from the ghost's first deposit on,
\* hunter 2 from the second, the others from the ghost's last draws.
InitIdentifying ==
    \E type \in randomGhost, equip \in assignRandomEquipment :
        /\ \A a, b \in Hunters : a < b => equip[a] < equip[b]
        /\ InitWith(2, type, equip, NUM_HUNTERS, Depositing, [h \in Hunters |-> <<{1}>>],
                    [t \in Threads |-> IF t = 0 THEN 1
                                       ELSE IF t = 1 THEN 5
                                       ELSE IF t = 2 THEN 7
                                       ELSE Len(Depositing)])

Identifying == InitIdentifying /\ [][Next]_vars

\* The relocation and the same-kind scenarios under fair scheduling, with
\* every step of the program.
FairGuards == (InitRelocation \/ InitSameKind) /\ [][Next]_vars /\ Fairness

\* a hunter's stream: two moves to the first neighbour, then nothing
Returning == <<{0}, {0}, {0}, {0}, {3}>>

\* There and back: hunters 1 and 2 each go from the Van to the Hallway and
\* back to the Van, and then idle until bored; the other threads are not
\* run.
InitThereAndBack ==
    InitWith(NumRooms, POLTERGEIST, Equipped, 0, Idle,
             [h \in Hunters |-> Returning],
             [t \in Threads |-> IF t \in {1, 2} THEN 1 ELSE never(Idle)])

ThereAndBack == InitThereAndBack /\ [][\E h \in Hunters : Hunter(h)]_vars

(* ------------------------------- guards -------------------------------- *)
\* The semaphores the threads take: a room's evidencelist->sem, a room's
\* hunterArray->sem and house->evidenceArray->sem (room 0 stands for the
\* house).
Guards ==
    ({"evidencelist", "hunterArray"} \X Rooms) \cup {<<"evidenceArray", 0>>}

\* the value of a semaphore
semValue(g) ==
    CASE g[1] = "evidencelist" -> ledgerSem[g[2]]
      [] g[1] = "hunterArray" -> rosterSem[g[2]]
      [] OTHER -> poolSem

\* the semaphores a thread is inside: those whose sem_wait it has returned
\* from and whose sem_post it has not made yet (addEv evidence.c:100-110,
\* addHunter hunter.c:107-121, collectEv evidence.c:154-171)
guardsHeld(t) ==
    IF t = 0
    THEN (IF gPc \in {"ev_append", "ev_post"} THEN {<<"evidencelist", gRoom>>} ELSE {})
    ELSE (IF hPc[t] \in {"add_check", "add_write", "add_load", "add_store", "add_post"}
          THEN {<<"hunterArray", hNew[t]>>} ELSE {})
         \cup (IF hPc[t] \in {"cv_body", "cv_post"} THEN {<<"evidenceArray", 0>>} ELSE {})

\* the semaphore a thread is in sem_wait for
guardsAwaited(t) ==
    IF t = 0
    THEN (IF gPc = "ev_wait" THEN {<<"evidencelist", gRoom>>} ELSE {})
    ELSE (IF hPc[t] = "add_wait" THEN {<<"hunterArray", hNew[t]>>} ELSE {})
         \cup (IF hPc[t] = "cv_wait" THEN {<<"evidenceArray", 0>>} ELSE {})

\* the rosters and evidence lists a thread's next step reads or writes,
\* named by their guards: the ghost's append (addEv), a hunter's query of
\* its room's list (doesEvidenceExist), the roster of the room it leaves
\* (removeHunter) and of the room it enters (addHunter)
roomDataTouched(t) ==
    IF t = 0
    THEN (IF gPc = "ev_append" THEN {<<"evidencelist", gRoom>>} ELSE {})
    ELSE (IF hPc[t] = "collect" THEN {<<"evidencelist", hRoom[t]>>} ELSE {})
         \cup (IF hPc[t] \in {"rm_test", "rm_cmp", "rm_shift_test", "rm_shift", "rm_load", "rm_store"}
               THEN {<<"hunterArray", hFrom[t]>>} ELSE {})
         \cup (IF hPc[t] \in {"add_check", "add_write", "add_load", "add_store"}
               THEN {<<"hunterArray", hNew[t]>>} ELSE {})

\* the same for the shared pool: collectEv's critical section, the size
\* read by hunterBehaviour's test (hunter.c:158) and the count made by
\* isSufficientEvidence for the review
poolTouched(t) ==
    IF t # 0 /\ hPc[t] \in {"cv_body", "post", "review"} THEN {<<"evidenceArray", 0>>} ELSE {}

(* ------------------------- functions on their own ---------------------- *)
\* the kinds of evidence of enum EvidenceType
Kinds == EMF..SOUND

\* what house->evidenceArray can hold: up to MAX_EV kinds, none twice
Pools ==
    {p \in UNION {[1..n -> Kinds] : n \in 0..MAX_EV} :
        \A i, j \in 1..Len(p) : i # j => p[i] # p[j]}

\* what an EvidenceType evidence[3] can hold: the enumerators and a value
\* below them
Triples == [1..3 -> (EMF - 1)..EV_UNKNOWN]

programVars == <<ghostVars, roomVars, hunterVars, houseVars, mainVars, flagWriters, rngVars, rngPos, logVars>>

\* isSufficientEvidence(sharedEvidence) applied to a pool
ApplyIsSufficientEvidence ==
    /\ \E arr \in Pools :
          call' = [fn |-> "isSufficientEvidence", arr |-> arr, kind |-> EV_UNKNOWN,
                   ret |-> isSufficientEvidence(arr), after |-> arr]
    /\ UNCHANGED programVars

\* identifyGhostFromEvidence(evidence) applied to three values
ApplyIdentifyGhostFromEvidence ==
    /\ \E evidence \in Triples :
          call' = [fn |-> "identifyGhostFromEvidence", arr |-> evidence, kind |-> EV_UNKNOWN,
                   ret |-> identifyGhostFromEvidence(evidence), after |-> evidence]
    /\ UNCHANGED programVars

\* collectEv(evidenceArray, evidence) applied to a pool by a single caller:
\* the range check, then the critical section and the return value
ApplyCollectEv ==
    /\ \E arr \in Pools, evidence \in (EMF - 1)..EV_UNKNOWN :
          call' = [fn |-> "collectEv", arr |-> arr, kind |-> evidence,
                   ret |-> IF collectEvValid(evidence) THEN collectEvResult(arr, evidence) ELSE -1,
                   after |-> IF collectEvValid(evidence) THEN collectEv(arr, evidence) ELSE arr]
    /\ UNCHANGED programVars

NextUnits == ApplyIsSufficientEvidence \/ ApplyIdentifyGhostFromEvidence \/ ApplyCollectEv

\* The functions applied on their own, whatever was applied before.
Units == InitBored(Always) /\ [][NextUnits]_vars

(* --------------------------------- claims ------------------------------ *)
\* C1: in every reachable state the shared evidence pool holds at most
\* MAX_EV (3) entries and no evidence kind appears in it twice, however the
\* hunters' collectEv calls interleave.
C1_PoolBoundedNoDuplicate ==
    /\ Len(pool) <= MAX_EV
    /\ \A i, j \in 1..Len(pool) : i # j => pool[i] # pool[j]

\* the pool is full and collectEv has just refused a hunter's kind
C1_Witness ==
    /\ Len(pool) = MAX_EV
    /\ \E h \in Hunters : hPc[h] = "cv_post" /\ hTmp[h] = -1

\* C2: once gameOver has been set, the ghost and every hunter eventually
\* exit: no thread keeps ticking for ever after the flag is set.
C2_FlagStopsEveryActor ==
    (gameOver = 1) ~> (gPc = "done" /\ \A h \in Hunters : HunterExited(h))

\* the flag is set, the ghost has exited, and a hunter that did not set the
\* flag and has neither counter at its maximum has left at its loop condition
C2_Witness ==
    /\ gameOver = 1
    /\ gPc = "done"
    /\ \E h \in Hunters :
          /\ hPc[h] = "exit_end"
          /\ h \notin flagWriters
          /\ fear[h] < FEAR_MAX /\ boredom[h] < BOREDOM_MAX

\* C3: under fair scheduling every run terminates: the ghost and all the
\* hunters exit, the joins return and the verdict is produced.
C3_EveryRunTerminates == <>(mPc = "done")

\* the number of entries of room r's roster that name hunter h
occurrences(r, h) == Cardinality({i \in 0..(rosterSize[r] - 1) : Slot(r, i) = h})

\* hunter h is inside updateHunterLocation
relocating(h) ==
    hPc[h] \in {"rm_test", "rm_cmp", "rm_shift_test", "rm_shift", "rm_load", "rm_store",
                "set_room", "add_wait", "add_check", "add_write", "add_load", "add_store",
                "add_post"}

\* C4: for every room r and hunter h, whenever r's roster guard is free, h's
\* room field is r exactly when h is in r's roster: a relocation shows no
\* state in which the hunter is in both rosters or in neither.
C4_RosterMatchesRoomField ==
    \A r \in Rooms, h \in Hunters :
        rosterSem[r] = 1 => ((hRoom[h] = r) <=> (occurrences(r, h) > 0))

\* C5: whenever no relocation is in progress, every hunter that has not
\* retired is exactly once in the roster of the room its room field names
\* and in no other roster, and every roster's size is the number of hunters
\* located in its room.
C5_NoOccupantDuplicatedOrLost ==
    (\A h \in Hunters : ~relocating(h)) =>
        \A r \in Rooms :
            /\ \A h \in Hunters :
                  ~HunterExited(h) => occurrences(r, h) = (IF hRoom[h] = r THEN 1 ELSE 0)
            /\ rosterSize[r] = Cardinality({h \in Hunters : hRoom[h] = r})

\* hunter h is incapacitated: its fear or its boredom is at its maximum
incapacitated(h) == fear[h] >= FEAR_MAX \/ boredom[h] >= BOREDOM_MAX

\* C6: if at the end of the run all the hunters are incapacitated, the
\* active-hunter count is 0 and the verdict is "ghost wins".
C6_AllIncapacitatedGhostWins ==
    (mPc = "done" /\ \A h \in Hunters : incapacitated(h)) =>
        (hunterCount = 0 /\ verdict = "ghost_wins")

\* the kinds held by the pool
poolKinds == {pool[i] : i \in 1..Len(pool)}

\* C7: at the end of the run exactly one verdict has been selected, and
\* when not all the hunters are incapacitated it is "hunters win" if the
\* pool holds 3 kinds and the ghost's boredom is below BOREDOM_MAX, and
\* "ghost left" if not.
C7_VerdictWhenHuntersRemain ==
    mPc = "done" =>
        /\ verdict \in {"ghost_wins", "hunters_win", "ghost_left"}
        /\ ~(\A h \in Hunters : incapacitated(h)) =>
              verdict = (IF Cardinality(poolKinds) = 3 /\ gBoredom < BOREDOM_MAX
                         THEN "hunters_win" ELSE "ghost_left")

\* the run has ended with "hunters win" and a hunter that is not incapacitated
C7_Witness ==
    /\ mPc = "done"
    /\ verdict = "hunters_win"
    /\ \E h \in Hunters : ~incapacitated(h)

\* C8: whenever the active-hunter count reaches 0, the flag becomes set by a
\* hunter's post-action check, whatever the ghost does.
C8_CountZeroSetsFlag ==
    (hunterCount = 0) ~> (\E h \in Hunters : h \in flagWriters)

\* C9: whenever the pool reaches 3 entries, the flag is eventually set by a
\* hunter's post-action check, also when a hunter that reviews the
\* sufficient pool exits without setting it.
C9_FullPoolSetsFlag ==
    (Len(pool) >= 3) ~> (\E h \in Hunters : h \in flagWriters)

\* the pool is full, a hunter has left through its review, and a hunter's
\* post-action check has set the flag
C9_Witness ==
    /\ Len(pool) >= 3
    /\ \E h \in Hunters : hPc[h] = "exit_review"
    /\ \E h \in Hunters : h \in flagWriters

\* C10: whenever the ghost's boredom reaches BOREDOM_MAX the ghost has set
\* the flag and exited, and from then on it neither moves nor deposits and
\* its boredom stays, so that it is at least BOREDOM_MAX at the verdict.
C10_BoredGhostStops ==
    /\ [](gBoredom >= BOREDOM_MAX => (gameOver = 1 /\ 0 \in flagWriters /\ gPc = "done"))
    /\ [][gBoredom >= BOREDOM_MAX => UNCHANGED <<gRoom, ledger, gBoredom, gPc>>]_vars

\* the verdict is out and the ghost was bored out
C10_Witness == mPc = "done" /\ gBoredom >= BOREDOM_MAX /\ 0 \in flagWriters

\* the kinds that occur in an array
kindsOf(arr) == {arr[i] : i \in 1..Len(arr)}

\* C11: for every content of the pool, the review's test
\* isSufficientEvidence(pool) >= 3 is true exactly when the pool holds 3
\* distinct kinds, whichever 3 of the 4 kinds they are.
C11_SufficientIffThreeKinds ==
    call.fn = "isSufficientEvidence" =>
        ((call.ret >= 3) <=> (Cardinality(kindsOf(call.arr) \cap Kinds) >= 3))

\* the class-evidence table: the kinds determineEvidenceType yields for a
\* class
kindsOfClass(c) == {determineEvidenceType(c, choice) : choice \in randInt(0, 3)}

\* C12: identifyGhostFromEvidence returns, for three distinct valid kinds
\* in any order, the one class whose kinds they are, and GH_UNKNOWN for
\* three values with a repeated or an invalid kind; applied again to the
\* same values it returns the same and changes no state.
C12_IdentifiesClassOfTriple ==
    /\ [](call.fn = "identifyGhostFromEvidence" =>
            IF kindsOf(call.arr) \subseteq Kinds /\ Cardinality(kindsOf(call.arr)) = 3
            THEN /\ call.ret \in POLTERGEIST..PHANTOM
                 /\ kindsOfClass(call.ret) = kindsOf(call.arr)
                 /\ \A c \in POLTERGEIST..PHANTOM :
                       kindsOfClass(c) = kindsOf(call.arr) => c = call.ret
            ELSE call.ret = GH_UNKNOWN)
    /\ [][(call'.fn = "identifyGhostFromEvidence") =>
            /\ UNCHANGED programVars
            /\ call'.after = call'.arr
            /\ (call.fn = call'.fn /\ call.arr = call'.arr) => call'.ret = call.ret]_vars

\* three distinct kinds, not in the order of the table, were identified
C12_Witness ==
    /\ call.fn = "identifyGhostFromEvidence"
    /\ call.arr = <<SOUND, EMF, FINGERPRINTS>>
    /\ call.ret = BULLIES

\* C13: for every pool and every valid kind k, collectEv returns 1 and
\* appends k exactly when the pool had fewer than 3 entries and did not
\* hold k; if not it returns -1 and leaves the pool as it was.
C13_CollectEvAcceptsOrRejects ==
    (call.fn = "collectEv" /\ call.kind \in Kinds) =>
        IF Len(call.arr) < 3 /\ call.kind \notin kindsOf(call.arr)
        THEN call.ret = 1 /\ call.after = Append(call.arr, call.kind)
        ELSE call.ret = -1 /\ call.after = call.arr

\* a kind was appended to a pool of two, and a kind was rejected by a pool
\* that held it
C13_Witness ==
    /\ call.fn = "collectEv"
    /\ \/ call.arr = <<SOUND, EMF>> /\ call.kind = TEMPERATURE /\ call.ret = 1
       \/ call.arr = <<SOUND>> /\ call.kind = SOUND /\ call.ret = -1

\* C14: when two hunters call collectEv at the same time with the same
\* kind and the pool neither holds it nor is full, one call returns 1 and
\* the other -1, and the pool ends with one entry of that kind: the call
\* that finds the kind absent returns 1 and leaves it present once, every
\* call that finds it present returns -1 and leaves the pool as it was, and
\* no two calls are in the critical section together.
C14_SameKindCollectedOnce ==
    /\ [](\A a, b \in Hunters :
            (a # b /\ hPc[a] \in {"cv_body", "cv_post"}) => hPc[b] \notin {"cv_body", "cv_post"})
    /\ [](\A i, j \in 1..Len(pool) : i # j => pool[i] # pool[j])
    /\ [][\A h \in Hunters :
            (hPc[h] = "cv_body" /\ hPc'[h] = "cv_post" /\ Len(pool) < MAX_EV) =>
               /\ Cardinality({i \in 1..Len(pool') : pool'[i] = hEv[h]}) = 1
               /\ IF hEv[h] \in kindsOf(pool)
                  THEN hTmp'[h] = -1 /\ pool' = pool
                  ELSE hTmp'[h] = 1 /\ pool' = Append(pool, hEv[h])]_vars

\* two hunters are in collectEv with the same kind: one has appended it and
\* returns 1, the other waits for the semaphore
C14_Witness ==
    \E a, b \in Hunters :
        /\ a # b
        /\ hEv[a] = EMF /\ hEv[b] = EMF
        /\ hPc[a] = "cv_post" /\ hTmp[a] = 1
        /\ hPc[b] = "cv_wait"
        /\ pool = <<EMF>>

\* C15: on every tick of a hunter, if the ghost's room is the hunter's room
\* fear goes up by 1 (at most to FEAR_MAX) and boredom becomes 0, and if
\* not boredom goes up by 1 (at most to BOREDOM_MAX) and fear stays; so
\* fear stays within 0..FEAR_MAX and boredom within 0..BOREDOM_MAX, and
\* fear never goes down.
C15_FearAndBoredomPerTick ==
    /\ [](\A h \in Hunters : fear[h] \in 0..FEAR_MAX /\ boredom[h] \in 0..BOREDOM_MAX)
    /\ [][\A h \in Hunters : fear'[h] >= fear[h]]_vars
    /\ [][\A h \in Hunters :
            (hPc[h] = "update" /\ hPc'[h] # "update") =>
               IF gRoom = hRoom[h]
               THEN /\ fear'[h] = (IF fear[h] + 1 <= FEAR_MAX THEN fear[h] + 1 ELSE FEAR_MAX)
                    /\ boredom'[h] = 0
               ELSE /\ boredom'[h] = (IF boredom[h] + 1 <= BOREDOM_MAX THEN boredom[h] + 1
                                      ELSE BOREDOM_MAX)
                    /\ fear'[h] = fear[h]]_vars

\* a hunter has ticked in the ghost's room: its fear is up and its boredom
\* is 0, while another hunter's boredom is up
C15_Witness ==
    \E a, b \in Hunters :
        /\ hRoom[a] = gRoom /\ hPc[a] = "post" /\ fear[a] = 1 /\ boredom[a] = 0
        /\ boredom[b] > 0 /\ fear[b] = 0

\* C16: the active-hunter counter is decremented atomically: when k hunters
\* have retired through maximum fear or boredom the counter is
\* NUM_HUNTERS - k, however their decrements interleave, and it is never
\* below 0.
C16_CountMatchesRetired ==
    /\ hunterCount >= 0
    /\ hunterCount = NUM_HUNTERS - Cardinality({h \in Hunters : hPc[h] = "exit_retire"})

\* C17: the termination flag is write-once: it is unset until a thread
\* stores to it, every store sets it to 1, a store to the set flag leaves
\* it set, and once set it is never unset again.
C17_FlagWriteOnce ==
    /\ [](gameOver \in {0, 1} /\ (flagWriters = {} => gameOver = 0))
    /\ [][flagWriters' # flagWriters => gameOver' = 1]_vars
    /\ [][gameOver = 1 => gameOver' = 1]_vars

\* the flag is set and has been stored to by two threads
C17_Witness == gameOver = 1 /\ Cardinality(flagWriters) >= 2

\* C18: in every reachable state a thread holds at most one guard, and it
\* neither waits for nor holds a guard while holding another: a semaphore
\* is down exactly while one thread is between its sem_wait and its
\* sem_post, a thread is between at most one such pair, and a thread in
\* sem_wait is between none.
C18_AtMostOneGuardHeld ==
    /\ \A g \in Guards :
          semValue(g) = 1 - Cardinality({t \in Threads : g \in guardsHeld(t)})
    /\ \A t \in Threads :
          /\ Cardinality(guardsHeld(t)) <= 1
          /\ guardsAwaited(t) # {} => guardsHeld(t) = {}

\* the ghost holds a room's evidence-list guard while a hunter holds the
\* pool's guard and another hunter waits for it
C18_Witness ==
    /\ guardsHeld(0) # {}
    /\ \E a, b \in Hunters :
          /\ guardsHeld(a) = {<<"evidenceArray", 0>>}
          /\ guardsAwaited(b) = {<<"evidenceArray", 0>>}

\* C19: every read or write of a room's roster or evidence list by a
\* thread (the removal and the insertion of a relocation, the ghost's
\* append, a hunter's query of the list) is made while the thread holds
\* that container's guard.
C19_RoomDataUnderGuard ==
    \A t \in Threads : roomDataTouched(t) \subseteq guardsHeld(t)

\* C20: every access of a thread to the shared pool (collectEv's insertion,
\* the size read of the hunter's test after its action, the count of the
\* review) is made while the thread holds the pool's guard.
C20_PoolUnderGuard ==
    \A t \in Threads : poolTouched(t) \subseteq guardsHeld(t)

\* C21: once the flag is set no thread that evaluates its loop condition
\* goes on to another tick: the evaluation takes it to its exit, and a
\* thread that has exited changes nothing any more, so that each thread
\* finishes at most the tick it was in when the flag was set.
C21_NoTickAfterObservingFlag ==
    /\ [][(gameOver = 1 /\ gPc = "loop" /\ gPc' # "loop") => gPc' = "done"]_vars
    /\ [][\A h \in Hunters :
            (gameOver = 1 /\ hPc[h] = "loop" /\ hPc'[h] # "loop") => hPc'[h] = "exit_end"]_vars
    /\ [][gPc = "done" => UNCHANGED <<gPc, gRoom, gBoredom, ledger>>]_vars
    /\ [][\A h \in Hunters :
            HunterExited(h) =>
               /\ hPc'[h] = hPc[h] /\ hRoom'[h] = hRoom[h]
               /\ fear'[h] = fear[h] /\ boredom'[h] = boredom[h]]_vars

\* a hunter has left its loop on finding the flag set by another thread,
\* and the ghost has left its own
C21_Witness ==
    /\ gameOver = 1
    /\ gPc = "done"
    /\ \E h \in Hunters : hPc[h] = "exit_end" /\ h \notin flagWriters

\* C22: a hunter that retires because its fear or boredom reached the
\* maximum is removed from its room's roster: once retired it is in no
\* room's roster.
C22_RetiredHunterInNoRoster ==
    \A h \in Hunters :
        hPc[h] = "exit_retire" => \A r \in Rooms : occurrences(r, h) = 0

\* C23: a hunter whose fear has reached FEAR_MAX or whose boredom has
\* reached BOREDOM_MAX does nothing but retire: from the update that
\* reached the maximum to its exit it is in decrementHunterCount or has
\* exited, never in a relocation, a collect or a review, and its room stays.
C23_MaxedHunterDoesNotAct ==
    /\ [](\A h \in Hunters :
            (fear[h] >= FEAR_MAX \/ boredom[h] >= BOREDOM_MAX) =>
               hPc[h] \in {"dec_test", "dec_load", "dec_store", "exit_retire"})
    /\ [][\A h \in Hunters :
            (fear'[h] >= FEAR_MAX \/ boredom'[h] >= BOREDOM_MAX) =>
               hRoom'[h] = hRoom[h] /\ (pool' # pool => hPc'[h] = hPc[h])]_vars

\* a hunter whose boredom reached the maximum has exited, having drawn no
\* action in its last tick
C23_Witness ==
    \E h \in Hunters :
        /\ boredom[h] = BOREDOM_MAX
        /\ hPc[h] = "exit_retire"
        /\ rngPos[h] = 1

\* C24: on every tick of the ghost, if some hunter's room field is the
\* ghost's room the ghost's boredom becomes 0, and if none is it goes up by
\* exactly 1; so the ghost's boredom stays within 0..BOREDOM_MAX.
C24_GhostBoredomPerTick ==
    /\ [](gBoredom \in 0..BOREDOM_MAX)
    /\ [][(gPc = "update" /\ gPc' # "update") =>
            gBoredom' = (IF \E h \in Hunters : hRoom[h] = gRoom THEN 0 ELSE gBoredom + 1)]_vars

\* C25: the ghost changes room only in a tick whose presence test found no
\* hunter in its room; in a tick whose test found one its room stays.
C25_GhostMovesOnlyWhenAlone ==
    /\ [][gRoom' # gRoom => (gPc = "update" /\ ~gSeen)]_vars
    /\ [][(gPc = "update" /\ gSeen) => gRoom' = gRoom]_vars

\* the ghost, having moved into the Van, found a hunter there, drew a move
\* and stayed
C25_Witness ==
    /\ gRoom = Van
    /\ gSeen
    /\ gPc = "loop"
    /\ gBoredom = 0
    /\ rngGhost = Straying
    /\ rngPos[0] >= 4

\* the rooms in a room's list of connected rooms
adjacent(r) == {roomlist[r][i] : i \in 1..Len(roomlist[r])}

RECURSIVE reachableFrom(_)
reachableFrom(S) ==
    LET N == S \cup UNION {adjacent(r) : r \in S}
    IN IF N = S THEN S ELSE reachableFrom(N)

\* C27: the graph populateRooms builds is symmetric (b is in a's list
\* exactly when a is in b's) and connected, and no tick of a thread changes
\* a room's list: the lists are written by connectRooms alone, before the
\* threads are started, so that in every state of a run the graph is the
\* one built (symmetric, with every room reachable from the Van and so
\* from every room), and the ghost and every hunter are in a room of it.
C27_GraphSymmetricConnected ==
    /\ \A a, b \in Rooms : (b \in adjacent(a)) <=> (a \in adjacent(b))
    /\ reachableFrom({Van}) = Rooms
    /\ \A r \in {gRoom} \cup {hRoom[h] : h \in Hunters} :
          r \in Rooms /\ adjacent(r) # {}

\* the ghost has moved and is done, hunter 1 has moved twice and retired
C27_Witness ==
    /\ rngGhost = Straying /\ rngPos[0] >= 3 /\ gPc = "done"
    /\ hRoom[1] \in adjacent(2) \ {Van}
    /\ hPc[1] = "exit_retire"

\* C28: every entry of every room's evidence list is one of the 3 kinds of
\* the ghost's class in the class-evidence table, and every deposit is
\* appended to the list of the room the ghost is in and to no other.
C28_LedgerHoldsKindsOfClass ==
    /\ [](\A r \in Rooms : kindsOf(ledger[r]) \subseteq (Kinds \cap kindsOfClass(gType)))
    /\ [][ledger' # ledger =>
            \E k \in kindsOfClass(gType) : ledger' = [ledger EXCEPT ![gRoom] = Append(@, k)]]_vars

\* one sequence is the other's beginning
isPrefix(a, b) == Len(a) <= Len(b) /\ \A i \in 1..Len(a) : a[i] = b[i]

\* C29: room evidence lists only grow: every step keeps each list as the
\* beginning of the new one, only the ghost's append changes a list (no
\* step of a hunter's collect or review does), and a hunter whose equipment
\* kind is anywhere in its room's list detects it when it queries.
C29_LedgerAppendOnly ==
    /\ [][\A r \in Rooms : isPrefix(ledger[r], ledger'[r])]_vars
    /\ [][ledger' # ledger => gPc = "ev_append" /\ hPc' = hPc]_vars
    /\ [][\A h \in Hunters :
            (/\ hPc[h] = "collect" /\ hPc'[h] # "collect"
             /\ equipment[h] \in kindsOf(ledger[hRoom[h]]))
            => hPc'[h] = "cv_wait" /\ hEv'[h] = equipment[h]]_vars

\* a hunter has detected its kind in an entry that is not the last of its
\* room's list
C29_Witness ==
    \E h \in Hunters :
        /\ hPc[h] = "cv_wait"
        /\ Len(ledger[hRoom[h]]) >= 2
        /\ ledger[hRoom[h]][1] = hEv[h]
        /\ ledger[hRoom[h]][Len(ledger[hRoom[h]])] # hEv[h]

\* C30: a hunter is inside collectEv only with its own equipment kind, and
\* that kind is in its room's list; the pool changes only by collectEv
\* appending that kind when it is new and the pool is not full; a query
\* that finds nothing and a refused add leave the pool as it is and return
\* the hunter to its loop.
C30_CollectOwnKindOrNothing ==
    /\ [](\A h \in Hunters :
            hPc[h] \in {"cv_wait", "cv_body", "cv_post"} =>
                hEv[h] = equipment[h] /\ equipment[h] \in kindsOf(ledger[hRoom[h]]))
    /\ [][pool' # pool =>
            \E h \in Hunters :
                /\ hPc[h] = "cv_body" /\ hPc'[h] = "cv_post"
                /\ Len(pool) < MAX_EV /\ equipment[h] \notin kindsOf(pool)
                /\ pool' = Append(pool, equipment[h])]_vars
    /\ [][\A h \in Hunters :
            (/\ hPc[h] = "collect" /\ hPc'[h] # "collect"
             /\ equipment[h] \notin kindsOf(ledger[hRoom[h]]))
            => pool' = pool /\ hPc'[h] = "post"]_vars
    /\ [][\A h \in Hunters :
            (/\ hPc[h] = "cv_body" /\ hPc'[h] # "cv_body"
             /\ (Len(pool) >= MAX_EV \/ equipment[h] \in kindsOf(pool)))
            => pool' = pool /\ hTmp'[h] = -1 /\ hPc'[h] = "cv_post"]_vars
    /\ [][\A h \in Hunters :
            (hPc[h] = "cv_post" /\ hPc'[h] # "cv_post") => pool' = pool /\ hPc'[h] = "post"]_vars

\* a hunter's add has just been refused as a duplicate: the pool holds its
\* kind and is not full
C30_Witness ==
    \E h \in Hunters :
        /\ hPc[h] = "cv_post" /\ hTmp[h] = -1
        /\ equipment[h] \in kindsOf(pool)
        /\ Len(pool) < MAX_EV

\* C31: a hunter-collect event is emitted only when collectEv returned
\* success and the kind is in the shared pool, never for an attempt that
\* collectEv refused.
C31_CollectLoggedOnlyOnSuccess ==
    [][\A h \in Hunters :
        collectLog'[h] # collectLog[h] =>
            hTmp[h] = 1 /\ hEv[h] \in kindsOf(pool) /\ hEv[h] \in kindsOf(pool')]_vars

\* C32: collectEv called with a value that is none of EMF, TEMPERATURE,
\* FINGERPRINTS and SOUND (EV_COUNT, EV_UNKNOWN and values below EMF
\* included) returns -1 and leaves the pool as it was.
C32_CollectEvRejectsInvalidKind ==
    (call.fn = "collectEv" /\ call.kind \notin Kinds) =>
        call.ret = -1 /\ call.after = call.arr

\* C33: wherever the random placement falls, the ghost starts in one of
\* the rooms other than the Van: until its first draw the ghost is in the
\* room prepareGhost gave it, and that room is not the Van.
C33_GhostStartsOutsideVan ==
    rngPos[0] = 1 => gRoom \in Rooms \ {Van}

\* the ghost has been placed in the last room of the house and a hunter has
\* run before the ghost's first draw
C33_Witness ==
    /\ rngPos[0] = 1
    /\ gRoom = NumRooms
    /\ \E h \in Hunters : rngPos[h] > 1

C35_PoolIdentifiesTheGhost ==
    /\ kindsOf(pool) \subseteq (Kinds \cap kindsOfClass(gType))
    /\ (mPc = "done" /\ Len(pool) = 3) => reviewResult = "correct"
    /\ reviewResult # "incorrect"

\* the verdict of a run with a class other than the first, whose 3 kinds
\* the hunters have collected
C35_Witness ==
    /\ mPc = "done"
    /\ gType = PHANTOM
    /\ Len(pool) = 3
    /\ reviewResult = "correct"

\* C36: when the shared pool holds 3 kinds, the hunter whose collect added
\* the third has fear below FEAR_MAX and boredom below BOREDOM_MAX, in
\* every state from then on and so when the verdict is computed; the
\* verdict of a run with a full pool is never "The ghost has won".
C36_FullPoolKeepsAHunterFit ==
    /\ Len(pool) = 3 =>
          \E h \in Hunters :
              /\ equipment[h] = pool[3]
              /\ fear[h] < FEAR_MAX
              /\ boredom[h] < BOREDOM_MAX
    /\ (mPc = "done" /\ Len(pool) = 3) => verdict # "ghost_wins"

\* the verdict of a run with a full pool in which another hunter has
\* reached FEAR_MAX
C36_Witness ==
    /\ mPc = "done"
    /\ Len(pool) = 3
    /\ \E h \in Hunters : fear[h] >= FEAR_MAX

\* C37: no thread exits or stays blocked while inside a guard: a semaphore
\* that is taken is held by a thread that is between its sem_wait and its
\* sem_post (collectEv, addHunter, addEv), a thread that has exited is
\* inside none, every semaphore is free once all threads have exited (so
\* reviewEv's sem_wait returns), and a thread waiting in sem_wait
\* eventually gets past it.
C37_GuardsAlwaysReleased ==
    /\ [](\A g \in Guards : semValue(g) = 0 => \E t \in Threads : g \in guardsHeld(t))
    /\ [](\A h \in Hunters : HunterExited(h) => guardsHeld(h) = {} /\ guardsAwaited(h) = {})
    /\ []((gPc = "done" /\ \A h \in Hunters : HunterExited(h)) =>
              \A g \in Guards : semValue(g) = 1)
    /\ \A t \in Threads : (guardsAwaited(t) # {}) ~> (guardsAwaited(t) = {})

\* a hunter is in addHunter's sem_wait for the roster another hunter is
\* inside
C37_Witness ==
    \E a, b \in Hunters :
        /\ a # b
        /\ hPc[a] = "add_wait"
        /\ <<"hunterArray", hNew[a]>> \in guardsHeld(b)

\* the hunters a room's roster holds: the names in its first size slots
rosterOf(r) == {Slot(r, i) : i \in 0..(rosterSize[r] - 1)}

\* C38: every room's roster holds at most NUM_HUNTERS entries, the roster
\* a relocating hunter is added to has a free slot when addHunter tests
\* its capacity, and a hunter that is not in the middle of a relocation
\* is in the roster of the room its room field names.
C38_RelocationNeverFails ==
    /\ \A r \in Rooms : rosterSize[r] \in 0..NUM_HUNTERS
    /\ \A h \in Hunters : hPc[h] = "add_check" => rosterSize[hNew[h]] < NUM_HUNTERS
    /\ \A h \in Hunters : ~relocating(h) => h \in rosterOf(hRoom[h])

\* C39: hunters that have retired are not counted by the ghost's test for
\* a hunter in its room: once every hunter thread has exited, a tick of the
\* ghost only raises its boredom by 1, never resets it, and the ghost is
\* bored out and exits.
C39_GhostBoredOutAfterHunters ==
    /\ [][((\A h \in Hunters : HunterExited(h)) /\ gBoredom' # gBoredom)
            => gBoredom' = gBoredom + 1]_vars
    /\ (\A h \in Hunters : HunterExited(h)) ~> (gPc = "done")

====
